---- MODULE Spec2Model ----
(***************************************************************************)
(* A model of the CHIP-8 virtual machine of mnafees/chopper: the           *)
(* separated core internal.C8VM (NewC8VM, LoadProgram, ReadNextInstruction *)
(* and its accessors).  Integers keep the widths of the Go fields: uint8   *)
(* values are kept modulo 256, uint16 values modulo 65536.                 *)
(***************************************************************************)
EXTENDS Integers, Sequences, FiniteSets, TLC

\* ------------------------------------------------------------ constants

totalMemory == 4096

pcStartAddr == 512

maxProgramSize == totalMemory - pcStartAddr

ScreenWidth == 64

ScreenHeight == 32

\* len(stack): the stack field is a [16]uint16
StackSize == 16

\* the moduli of the Go integer types uint8 and uint16
Byte == 256

Word == 65536

fontset ==
  << 240, 144, 144, 144, 240,
      32,  96,  32,  32, 112,
     240,  16, 240, 128, 240,
     240,  16, 240,  16, 240,
     144, 144, 240,  16,  16,
     240, 128, 240,  16, 240,
     240, 128, 240, 144, 240,
     240,  16,  32,  64,  64,
     240, 144, 240, 144, 240,
     240, 144, 240,  16, 240,
     240, 144, 240, 144, 144,
     224, 144, 224, 144, 224,
     240, 128, 128, 128, 240,
     224, 144, 144, 144, 224,
     240, 128, 240, 128, 240,
     240, 128, 240, 128, 128 >>

\* ------------------------------------------------------------ bit operations

Pow2(n) == IF n >= 16 THEN 0 ELSE
  << 1, 2, 4, 8, 16, 32, 64, 128, 256, 512, 1024, 2048, 4096, 8192, 16384, 32768 >>[n + 1]

Bit(v, i) == (v \div Pow2(i)) % 2

\* Go's a & b on values below 2^16
BitAnd(a, b) ==
  LET f[i \in 0..16] ==
        IF i = 16 THEN 0 ELSE Pow2(i) * (Bit(a, i) * Bit(b, i)) + f[i + 1]
  IN f[0]

\* Go's a | b on values below 2^16
BitOr(a, b) == a + b - BitAnd(a, b)

\* Go's a ^ b on values below 2^16
BitXor(a, b) == a + b - 2 * BitAnd(a, b)

\* ------------------------------------------------------------ state

VARIABLES
  pixels,      \* [64][32]uint8
  memory,      \* [4096]uint8, indexed 0..4095
  stack,       \* [16]uint16, indexed 0..15
  regV,        \* [16]uint8
  regI,        \* uint16
  delayTimer,  \* uint8
  soundTimer,  \* uint8
  clearFlag,   \* bool
  drawFlag,    \* bool
  key,         \* int16, kept as its 16-bit pattern 0..65535
  sp,          \* uint8
  pc,          \* uint16
  opcode,      \* uint16: opcode of the current instruction
  err,         \* the outcome of the last call into the VM
  calls,       \* history: the call sites (PC of each 2nnn) not yet returned from
  at,          \* IO.Loop: the statement of the loop body that runs next
  running,     \* IO.Loop: the local variable running
  events       \* the SDL events not yet returned by sdl.PollEvent

vars == << opcode, regV, regI, delayTimer, soundTimer, pc, sp, stack, memory,
           clearFlag, drawFlag, key, pixels, err, calls, at, running, events >>

\* the state of IO.Loop and of the event queue it polls
loopVars == << at, running, events >>

\* The VM as one value: the fields of C8VM and the outcome of the call.
VM ==
  [ opcode |-> opcode, regV |-> regV, regI |-> regI, delayTimer |-> delayTimer,
    soundTimer |-> soundTimer, pc |-> pc, sp |-> sp, stack |-> stack,
    memory |-> memory, clearFlag |-> clearFlag, drawFlag |-> drawFlag,
    key |-> key, pixels |-> pixels, err |-> err ]

\* err: "none" before any call, "nil" a call that returned no error,
\* "UnknownOpcode" and "ProgramTooLarge" the errors returned to the caller,
\* "OutOfBounds" the Go runtime's index-out-of-range panic, which aborts the
\* call where it happens, "hang" a call that never returns, "exit" the
\* os.Exit(1) of package emulator's unknownOpcode.
Outcomes ==
  { "none", "nil", "UnknownOpcode", "ProgramTooLarge", "OutOfBounds", "hang", "exit" }

\* a panic ends the process; a call that never returns ends the caller's loop
Stopped(e) == e \in { "OutOfBounds", "hang" }

\* ------------------------------------------------------------ construction

NewC8VM ==
  [ opcode |-> 0,
    regV |-> [i \in 0..15 |-> 0],
    regI |-> 0,
    delayTimer |-> 0,
    soundTimer |-> 0,
    pc |-> pcStartAddr,
    sp |-> 0,
    stack |-> [i \in 0..(StackSize - 1) |-> 0],
    memory |-> [a \in 0..(totalMemory - 1) |->
                  IF a < Len(fontset) THEN fontset[a + 1] ELSE 0],
    clearFlag |-> FALSE,
    drawFlag |-> FALSE,
    key |-> 0,
    pixels |-> [w \in 0..(ScreenWidth - 1) |-> [h \in 0..(ScreenHeight - 1) |-> 0]],
    err |-> "none" ]

\* ------------------------------------------------------------ LoadProgram

\* copy(vm.memory[pcStartAddr:], data), byte by byte from byte i of data
RECURSIVE CopyBytes(_, _, _)
CopyBytes(mem, data, i) ==
  IF i > Len(data)
    THEN mem
    ELSE CopyBytes([mem EXCEPT ![pcStartAddr + i - 1] = data[i]], data, i + 1)

\* copy(vm.memory[pcStartAddr:], data): byte i of data (from 1) goes to
\* memory[pcStartAddr + i - 1], every other byte of memory is kept (a long
\* file is copied by one function constructor, which gives the same memory
\* as the byte by byte copy)
CopyProgram(mem, data) ==
  LET last == pcStartAddr + Len(data) - 1
  IN  IF Len(data) <= 32
        THEN CopyBytes(mem, data, 1)
        ELSE [a \in DOMAIN mem |->
                IF a < pcStartAddr \/ a > last THEN mem[a] ELSE data[a - pcStartAddr + 1]]

\* LoadProgram refusing a file of exactly maxProgramSize bytes
LoadProgramData_AtLeast(s, data) ==
  IF Len(data) >= maxProgramSize
    THEN [s EXCEPT !.err = "ProgramTooLarge"]
    ELSE [s EXCEPT !.memory = CopyProgram(s.memory, data), !.err = "nil"]

\* LoadProgram, given the bytes ioutil.ReadFile returned
LoadProgramData(s, data) ==
  IF Len(data) > maxProgramSize
    THEN [s EXCEPT !.err = "ProgramTooLarge"]
    ELSE [s EXCEPT !.memory = CopyProgram(s.memory, data), !.err = "nil"]

\* ------------------------------------------------------------ key mask

\* int16(1 << code): the shift is done in int16, so code >= 16 gives 0
KeyBit(code) == Pow2(code)

issetKeymask(s, code) == BitAnd(s.key, KeyBit(code)) = KeyBit(code)

\* vm.key |= (1 << code)
SetKeymaskOf(s, code) == [s EXCEPT !.key = BitOr(s.key, KeyBit(code))]

\* vm.key ^= (1 << code)
UnsetKeymaskOf(s, code) == [s EXCEPT !.key = BitXor(s.key, KeyBit(code))]

\* ------------------------------------------------------------ timers

\* DecrementDelayTimer without the test for 0: the uint8 wraps to 255
DecrementDelayTimerOf_Wrapping(s) == [s EXCEPT !.delayTimer = (@ - 1) % Byte]

\* DecrementDelayTimer
DecrementDelayTimerOf(s) ==
  IF s.delayTimer > 0 THEN [s EXCEPT !.delayTimer = (@ - 1) % Byte] ELSE s

\* DecrementSoundTimer
DecrementSoundTimerOf(s) ==
  IF s.soundTimer > 0 THEN [s EXCEPT !.soundTimer = (@ - 1) % Byte] ELSE s

\* ------------------------------------------------------------ sprite

\* the inner loop of initSprite with the sprite ORed into the framebuffer
RECURSIVE DrawBits_Or(_, _, _, _, _, _)
DrawBits_Or(s, x, y, byteIdx, spriteByte, bitIdx) ==
  IF bitIdx >= 8 THEN s
  ELSE LET bit == Bit(spriteByte, bitIdx)
           w == ((x + (7 - bitIdx)) % Byte) % ScreenWidth
           h == ((y + byteIdx) % Byte) % ScreenHeight
           px == s.pixels[w][h]
           t == [s EXCEPT !.regV[15] = IF bit = 1 /\ px = 1 THEN 1 ELSE @,
                          !.pixels[w][h] = BitOr(px, bit)]
       IN DrawBits_Or(t, x, y, byteIdx, spriteByte, bitIdx + 1)

\* the inner loop of initSprite: bits bitIdx..7 of one sprite byte
RECURSIVE DrawBits(_, _, _, _, _, _)
DrawBits(s, x, y, byteIdx, spriteByte, bitIdx) ==
  IF bitIdx >= 8 THEN s
  ELSE LET bit == Bit(spriteByte, bitIdx)
           w == ((x + (7 - bitIdx)) % Byte) % ScreenWidth
           h == ((y + byteIdx) % Byte) % ScreenHeight
           px == s.pixels[w][h]
           t == [s EXCEPT !.regV[15] = IF bit = 1 /\ px = 1 THEN 1 ELSE @,
                          !.pixels[w][h] = BitXor(px, bit)]
       IN DrawBits(t, x, y, byteIdx, spriteByte, bitIdx + 1)

\* the outer loop of initSprite: rows byteIdx..n-1; an index past the memory
\* panics with the rows before it drawn
RECURSIVE DrawRows(_, _, _, _, _)
DrawRows(s, x, y, n, byteIdx) ==
  IF byteIdx >= n THEN s
  ELSE LET addr == (s.regI + byteIdx) % Word IN
       IF addr >= totalMemory THEN [s EXCEPT !.err = "OutOfBounds"]
       ELSE DrawRows(DrawBits(s, x, y, byteIdx, s.memory[addr], 0), x, y, n, byteIdx + 1)

\* initSprite drawing one column to the right
initSprite_Shifted(s, x, y, n) == DrawRows([s EXCEPT !.regV[15] = 0], (x + 1) % Byte, y, n, 0)

\* initSprite: the result of its unknownOpcode() call for n = 0 is dropped
initSprite(s, x, y, n) == DrawRows([s EXCEPT !.regV[15] = 0], x, y, n, 0)

NullifyPixelsOf(s) ==
  [s EXCEPT !.pixels = [w \in 0..(ScreenWidth - 1) |-> [h \in 0..(ScreenHeight - 1) |-> 0]]]

\* ------------------------------------------------------------ instructions

Advance(s, k) == [s EXCEPT !.pc = (s.pc + k) % Word]

\* an unknown opcode that is reported and also stepped over
unknownOpcode_Skipping(s) == Advance([s EXCEPT !.err = "UnknownOpcode"], 2)

unknownOpcode(s) == [s EXCEPT !.err = "UnknownOpcode"]

\* a fetch whose addresses wrap around the memory instead of failing
Fetched_Wrapping(s) ==
  [ok |-> TRUE,
   op |-> s.memory[s.pc % totalMemory] * Byte + s.memory[(s.pc + 1) % totalMemory]]

\* the fetch: memory[pc] is read first, then memory[pc+1] (pc+1 in uint16);
\* either index past the array panics before vm.opcode is assigned
Fetched(s) ==
  LET hi == s.pc
      lo == (s.pc + 1) % Word
  IN IF hi >= totalMemory \/ lo >= totalMemory
       THEN [ok |-> FALSE, op |-> 0]
       ELSE [ok |-> TRUE, op |-> s.memory[hi] * Byte + s.memory[lo]]

\* 00E0
OpCLS(s) == Advance([s EXCEPT !.clearFlag = TRUE], 2)

\* 00EE: vm.sp-- happens before the stack is indexed
OpRET(s) ==
  LET nsp == (s.sp - 1) % Byte
      t == [s EXCEPT !.sp = nsp]
  IN IF nsp >= StackSize THEN [t EXCEPT !.err = "OutOfBounds"]
     ELSE [t EXCEPT !.pc = (s.stack[nsp] + 2) % Word]

\* 1nnn
OpJP(s, nnn) == [s EXCEPT !.pc = nnn]

\* 2nnn keeping every return address in the first stack entry
OpCALL_OneSlot(s, nnn) ==
  IF s.sp >= StackSize THEN [s EXCEPT !.err = "OutOfBounds"]
  ELSE [s EXCEPT !.stack[0] = s.pc, !.sp = (s.sp + 1) % Byte, !.pc = nnn]

\* 2nnn: the stack is indexed before anything is assigned
OpCALL(s, nnn) ==
  IF s.sp >= StackSize THEN [s EXCEPT !.err = "OutOfBounds"]
  ELSE [s EXCEPT !.stack[s.sp] = s.pc, !.sp = (s.sp + 1) % Byte, !.pc = nnn]

\* 3xkk, 4xkk, 5xy0, 9xy0, Ex9E, ExA1: an extra pc += 2 when cond holds
OpSkipIf(s, cond) == Advance(s, IF cond THEN 4 ELSE 2)

\* 6xkk
OpLD(s, x, kk) == Advance([s EXCEPT !.regV[x] = kk], 2)

\* 7xkk
OpADDkk(s, x, kk) == Advance([s EXCEPT !.regV[x] = (@ + kk) % Byte], 2)

\* 8xy4 writing VF before the operands are read
OpADD_FlagFirst(s, x, y) ==
  LET t == [s EXCEPT !.regV[15] = IF s.regV[x] + s.regV[y] > 255 THEN 1 ELSE 0]
  IN [t EXCEPT !.regV[x] = (t.regV[x] + t.regV[y]) % Byte]

\* 8xy4: temp is computed first, then VF is written, then Vx
OpADD(s, x, y) ==
  LET temp == s.regV[x] + s.regV[y]
      t == [s EXCEPT !.regV[15] = IF temp > 255 THEN 1 ELSE 0]
  IN [t EXCEPT !.regV[x] = temp % Byte]

\* 8xy5: VF is written first, then Vx -= Vy reads the registers again
OpSUB(s, x, y) ==
  LET t == [s EXCEPT !.regV[15] = IF s.regV[x] > s.regV[y] THEN 1 ELSE 0]
  IN [t EXCEPT !.regV[x] = (t.regV[x] - t.regV[y]) % Byte]

\* 8xy6
OpSHR(s, x) ==
  LET t == [s EXCEPT !.regV[15] = IF s.regV[x] % 2 = 1 THEN 1 ELSE 0]
  IN [t EXCEPT !.regV[x] = t.regV[x] \div 2]

\* 8xy7
OpSUBN(s, x, y) ==
  LET t == [s EXCEPT !.regV[15] = IF s.regV[y] > s.regV[x] THEN 1 ELSE 0]
  IN [t EXCEPT !.regV[x] = (t.regV[y] - t.regV[x]) % Byte]

\* 8xyE
OpSHL(s, x) ==
  LET t == [s EXCEPT !.regV[15] = IF s.regV[x] >= 128 THEN 1 ELSE 0]
  IN [t EXCEPT !.regV[x] = (t.regV[x] * 2) % Byte]

\* Dxyn with the origin read from the registers after VF is reset
OpDRW_OriginAfterReset(s, x, y, n) ==
  LET r == [s EXCEPT !.regV[15] = 0]
      t == initSprite(s, r.regV[x], r.regV[y], n)
  IN IF t.err = "OutOfBounds" THEN t
     ELSE [Advance(t, 2) EXCEPT !.drawFlag = TRUE]

\* the 0x8000 family; pc += 2 follows the inner switch
Op8(s, x, y, n) ==
  CASE n = 0 -> Advance([s EXCEPT !.regV[x] = s.regV[y]], 2)
    [] n = 1 -> Advance([s EXCEPT !.regV[x] = BitOr(s.regV[x], s.regV[y])], 2)
    [] n = 2 -> Advance([s EXCEPT !.regV[x] = BitAnd(s.regV[x], s.regV[y])], 2)
    [] n = 3 -> Advance([s EXCEPT !.regV[x] = BitXor(s.regV[x], s.regV[y])], 2)
    [] n = 4 -> Advance(OpADD(s, x, y), 2)
    [] n = 5 -> Advance(OpSUB(s, x, y), 2)
    [] n = 6 -> Advance(OpSHR(s, x), 2)
    [] n = 7 -> Advance(OpSUBN(s, x, y), 2)
    [] n = 14 -> Advance(OpSHL(s, x), 2)
    [] OTHER -> unknownOpcode(s)

\* Dxyn
OpDRW(s, x, y, n) ==
  LET t == initSprite(s, s.regV[x], s.regV[y], n)
  IN IF t.err = "OutOfBounds" THEN t
     ELSE [Advance(t, 2) EXCEPT !.drawFlag = TRUE]

\* Fx0A: every pass of the inner loop tests the bit numbered by Vx, and the
\* first pass has i = 0; with that bit clear the loops never end
OpLDK(s, x) ==
  IF issetKeymask(s, s.regV[x]) THEN [s EXCEPT !.regV[x] = 0]
  ELSE [s EXCEPT !.err = "hang"]

\* Fx29: 5 * vm.regV[x] is a uint8 product
OpLDF(s, x) == [s EXCEPT !.regI = (5 * s.regV[x]) % Byte]

\* Fx33: three stores in order, each index checked when it is used
OpBCD(s, x) ==
  LET v == s.regV[x]
      a0 == s.regI
      a1 == (s.regI + 1) % Word
      a2 == (s.regI + 2) % Word
  IN IF a0 >= totalMemory THEN [s EXCEPT !.err = "OutOfBounds"]
     ELSE LET t0 == [s EXCEPT !.memory[a0] = (v \div 100) % 10] IN
          IF a1 >= totalMemory THEN [t0 EXCEPT !.err = "OutOfBounds"]
          ELSE LET t1 == [t0 EXCEPT !.memory[a1] = (v \div 10) % 10] IN
               IF a2 >= totalMemory THEN [t1 EXCEPT !.err = "OutOfBounds"]
               ELSE [t1 EXCEPT !.memory[a2] = v % 10]

\* Fx55 that leaves I behind the last byte stored
RECURSIVE StoreRegs_MovingI(_, _, _)
StoreRegs_MovingI(s, x, i) ==
  IF i > x THEN [s EXCEPT !.regI = (@ + x + 1) % Word]
  ELSE LET addr == (s.regI + i) % Word IN
       IF addr >= totalMemory THEN [s EXCEPT !.err = "OutOfBounds"]
       ELSE StoreRegs_MovingI([s EXCEPT !.memory[addr] = s.regV[i]], x, i + 1)

\* Fx55: the loop from i on
RECURSIVE StoreRegs(_, _, _)
StoreRegs(s, x, i) ==
  IF i > x THEN s
  ELSE LET addr == (s.regI + i) % Word IN
       IF addr >= totalMemory THEN [s EXCEPT !.err = "OutOfBounds"]
       ELSE StoreRegs([s EXCEPT !.memory[addr] = s.regV[i]], x, i + 1)

\* Fx65: the loop from i on
RECURSIVE LoadRegs(_, _, _)
LoadRegs(s, x, i) ==
  IF i > x THEN s
  ELSE LET addr == (s.regI + i) % Word IN
       IF addr >= totalMemory THEN [s EXCEPT !.err = "OutOfBounds"]
       ELSE LoadRegs([s EXCEPT !.regV[i] = s.memory[addr]], x, i + 1)

\* the 0xF000 family; pc += 2 follows the inner switch
OpF(s, x, kk) ==
  LET t == CASE kk = 7 -> [s EXCEPT !.regV[x] = s.delayTimer]
             [] kk = 10 -> OpLDK(s, x)
             [] kk = 21 -> [s EXCEPT !.delayTimer = s.regV[x]]
             [] kk = 24 -> [s EXCEPT !.soundTimer = s.regV[x]]
             [] kk = 30 -> [s EXCEPT !.regI = (s.regI + s.regV[x]) % Word]
             [] kk = 41 -> OpLDF(s, x)
             [] kk = 51 -> OpBCD(s, x)
             [] kk = 85 -> StoreRegs(s, x, 0)
             [] kk = 101 -> LoadRegs(s, x, 0)
             [] OTHER -> unknownOpcode(s)
  IN IF t.err = "nil" THEN Advance(t, 2) ELSE t

\* the switch on kk of the 0x0000 family
Op0(s, kk) ==
  CASE kk = 224 -> OpCLS(s)
    [] kk = 238 -> OpRET(s)
    [] OTHER -> unknownOpcode(s)

\* the switch on kk of the 0xE000 family
OpE(s, x, kk) ==
  CASE kk = 158 -> OpSkipIf(s, issetKeymask(s, s.regV[x]))
    [] kk = 161 -> OpSkipIf(s, ~issetKeymask(s, s.regV[x]))
    [] OTHER -> unknownOpcode(s)

\* the decode and dispatch of ReadNextInstruction on the fetched opcode op;
\* rnd is the byte rand.Intn(256) returns
Dispatch(s0, op, rnd) ==
  LET s == [s0 EXCEPT !.opcode = op, !.err = "nil"]
      x == (op \div 256) % 16
      y == (op \div 16) % 16
      n == op % 16
      kk == op % 256
      nnn == op % 4096
      hi == op \div 4096
  IN CASE hi = 0 -> Op0(s, kk)
       [] hi = 1 -> OpJP(s, nnn)
       [] hi = 2 -> OpCALL(s, nnn)
       [] hi = 3 -> OpSkipIf(s, s.regV[x] = kk)
       [] hi = 4 -> OpSkipIf(s, s.regV[x] # kk)
       [] hi = 5 -> IF n = 0 THEN OpSkipIf(s, s.regV[x] = s.regV[y]) ELSE unknownOpcode(s)
       [] hi = 6 -> OpLD(s, x, kk)
       [] hi = 7 -> OpADDkk(s, x, kk)
       [] hi = 8 -> Op8(s, x, y, n)
       [] hi = 9 -> IF n = 0 THEN OpSkipIf(s, s.regV[x] # s.regV[y]) ELSE unknownOpcode(s)
       [] hi = 10 -> Advance([s EXCEPT !.regI = nnn], 2)
       [] hi = 11 -> OpJP(s, (nnn + s.regV[0]) % Word)
       [] hi = 12 -> OpLD(s, x, BitAnd(rnd, kk))
       [] hi = 13 -> OpDRW(s, x, y, n)
       [] hi = 14 -> OpE(s, x, kk)
       [] OTHER -> OpF(s, x, kk)

\* one call of ReadNextInstruction
Exec(s, rnd) ==
  LET f == Fetched(s)
  IN IF f.ok THEN Dispatch(s, f.op, rnd) ELSE [s EXCEPT !.err = "OutOfBounds"]

\* ------------------------------------------------------------ actions

\* the fields of the VM record t become the next state
Commit(t) ==
  /\ opcode' = t.opcode
  /\ regV' = t.regV
  /\ regI' = t.regI
  /\ delayTimer' = t.delayTimer
  /\ soundTimer' = t.soundTimer
  /\ pc' = t.pc
  /\ sp' = t.sp
  /\ stack' = t.stack
  /\ memory' = t.memory
  /\ clearFlag' = t.clearFlag
  /\ drawFlag' = t.drawFlag
  /\ key' = t.key
  /\ pixels' = t.pixels
  /\ err' = t.err

Init ==
  /\ opcode = NewC8VM.opcode
  /\ regV = NewC8VM.regV
  /\ regI = NewC8VM.regI
  /\ delayTimer = NewC8VM.delayTimer
  /\ soundTimer = NewC8VM.soundTimer
  /\ pc = NewC8VM.pc
  /\ sp = NewC8VM.sp
  /\ stack = NewC8VM.stack
  /\ memory = NewC8VM.memory
  /\ clearFlag = NewC8VM.clearFlag
  /\ drawFlag = NewC8VM.drawFlag
  /\ key = NewC8VM.key
  /\ pixels = NewC8VM.pixels
  /\ err = NewC8VM.err
  /\ calls = << >>
  /\ at = "cycle"
  /\ running = TRUE
  /\ events = << >>

\* the high and low byte of each opcode, in order: a program file
Bytes(ops) == [i \in 1..(2 * Len(ops)) |->
                 IF i % 2 = 1 THEN ops[(i + 1) \div 2] \div Byte ELSE ops[i \div 2] % Byte]

\* the opcode the next fetch will read, when the fetch is in range
NextOp == Fetched(VM).op

IsCALL == Fetched(VM).ok /\ NextOp \div 4096 = 2

IsRET == Fetched(VM).ok /\ NextOp \div 4096 = 0 /\ NextOp % Byte = 238

IsRND == Fetched(VM).ok /\ NextOp \div 4096 = 12

\* the history of pending call sites after a cycle that went from VM to t
CallsAfter(t) ==
  IF t.err # "nil" THEN calls
  ELSE IF IsCALL THEN Append(calls, pc)
  ELSE IF IsRET /\ Len(calls) > 0 THEN SubSeq(calls, 1, Len(calls) - 1)
  ELSE calls

LoadProgram(data) ==
  /\ ~Stopped(err)
  /\ \E t \in { LoadProgramData(VM, data) } : Commit(t)
  /\ UNCHANGED << calls, loopVars >>

ReadNextInstruction ==
  /\ ~Stopped(err)
  /\ \E rnd \in (IF IsRND THEN 0..255 ELSE {0}) :
       \E t \in { Exec(VM, rnd) } : Commit(t) /\ calls' = CallsAfter(t)
  /\ UNCHANGED loopVars

\* a KEYDOWN event of IO.Loop for the key mapped to code
SetKeymask(code) ==
  /\ ~Stopped(err)
  /\ \E t \in { SetKeymaskOf(VM, code) } : Commit(t)
  /\ UNCHANGED << calls, loopVars >>

\* a KEYUP event of IO.Loop for the key mapped to code
UnsetKeymask(code) ==
  /\ ~Stopped(err)
  /\ \E t \in { UnsetKeymaskOf(VM, code) } : Commit(t)
  /\ UNCHANGED << calls, loopVars >>

\* a call of DecrementDelayTimer between two cycles
DecrementDelayTimer ==
  /\ ~Stopped(err)
  /\ \E t \in { DecrementDelayTimerOf(VM) } : Commit(t)
  /\ UNCHANGED << calls, loopVars >>

\* a call of DecrementSoundTimer between two cycles
DecrementSoundTimer ==
  /\ ~Stopped(err)
  /\ \E t \in { DecrementSoundTimerOf(VM) } : Commit(t)
  /\ UNCHANGED << calls, loopVars >>

\* ------------------------------------------------------------ programs

\* the deepest chain of nested calls among the programs
MaxDepth == 17

\* the x nibbles 0..MaxX of the decoded opcodes
MaxX == 0

\* d nested calls: the main routine calls routine 1 and then loops at 0x202;
\* routine i < d calls routine i+1 and returns, routine d returns
NestedCalls(d) ==
  Bytes([j \in 1..(2 + 2 * d) |->
           IF j = 1 THEN 8192 + pcStartAddr + 4
           ELSE IF j = 2 THEN 4096 + pcStartAddr + 2
           ELSE IF j % 2 = 1 /\ (j - 1) \div 2 < d
             THEN 8192 + pcStartAddr + 4 + 4 * ((j - 1) \div 2)
           ELSE 238])

\* a program of the maximum size: a jump to its last instruction, lastOp
FullProgram(lastOp) ==
  [i \in 1..maxProgramSize |->
     IF i = 1 THEN 31
     ELSE IF i = 2 THEN 254
     ELSE IF i = maxProgramSize - 1 THEN lastOp \div Byte
     ELSE IF i = maxProgramSize THEN lastOp % Byte
     ELSE 0]

\* every high nibble but 0xC (whose random byte is drawn in OtherPrograms),
\* the x nibbles 0..MaxX, every low byte
DecodeOps ==
  { hi * 4096 + x * 256 + kk : hi \in (0..15) \ {12}, x \in 0..MaxX, kk \in 0..255 }

\* the 0x0 family with every other x nibble: the low bytes of CLS and RET and
\* two low bytes of no instruction
SysOps == { x * 256 + kk : x \in 1..15, kk \in {0, 224, 225, 238} }

\* V1 = 7, I = 0x2F0, then one opcode
DecodePrograms ==
  { << 97, 7, 162, 240, op \div Byte, op % Byte >> : op \in DecodeOps \cup SysOps }

\* jumps below 0x200, to odd addresses and past the memory; stores at I = 0
OtherPrograms ==
  { Bytes(<< 4097 >>),                \* 1001
    << 18, 3, 0, 96, 0 >>,            \* 1203, and 6000 at 0x203
    Bytes(<< 8191 >>),                \* 1FFF
    Bytes(<< 8190 >>),                \* 1FFE
    Bytes(<< 24831, 49151 >>),        \* 60FF BFFF
    Bytes(<< 238 >>),                 \* 00EE
    Bytes(<< 61491 >>),               \* F033
    Bytes(<< 24746, 61525 >>),        \* 60AA F055
    Bytes(<< 49423, 4608 >>),         \* C10F 1200
    Bytes(<< 53253, 53248 >>),        \* D005 D000
    FullProgram(24576),               \* ... 6000 at 0xFFE
    FullProgram(12288) }              \* ... 3000 at 0xFFE

CorePrograms ==
  { NestedCalls(d) : d \in 1..MaxDepth } \cup DecodePrograms \cup OtherPrograms

\* ------------------------------------------------------------ specifications

\* main() loads one program into the new VM before the first cycle
LoadCore == err = "none" /\ \E data \in CorePrograms : LoadProgram(data)

Next == LoadCore \/ ReadNextInstruction

Spec == Init /\ [][Next]_vars

\* ------------------------------------------------------------ claims under Spec

\* VM state other than the opcode field: registers V0-VF, I, PC, SP, the
\* stack, memory, both timers, the key mask, the framebuffer and both flags
StateVars == << regV, regI, pc, sp, stack, memory, delayTimer, soundTimer,
                key, pixels, clearFlag, drawFlag >>

\* the patterns of the opcode table: 00E0 and 00EE on all 16 bits; 5xy0,
\* 8xy0-8xy7, 8xyE and 9xy0 on the low nibble; Ex9E, ExA1 and the nine Fx
\* forms on the low byte; the other families on the high nibble alone
InTable(op) ==
  LET hi == op \div 4096
      kk == op % 256
      n == op % 16
  IN CASE hi = 0 -> op \in {224, 238}
       [] hi \in {5, 9} -> n = 0
       [] hi = 8 -> n \in (0..7) \cup {14}
       [] hi = 14 -> kk \in {158, 161}
       [] hi = 15 -> kk \in {7, 10, 21, 24, 30, 41, 51, 85, 101}
       [] OTHER -> TRUE

\* C1: a cycle whose opcode matches no pattern of the opcode table reports
\* UnknownOpcode and has no effect on the VM state.
C1_UnknownOpcodeReported ==
  [][ (ReadNextInstruction /\ Fetched(VM).ok /\ ~InTable(NextOp))
        => (err' = "UnknownOpcode" /\ UNCHANGED StateVars) ]_vars

\* C2: a cycle that reports UnknownOpcode leaves registers, I, PC, SP, the
\* stack, memory, the timers, the key mask, the framebuffer and both flags
\* as they were.
C2_UnknownOpcodeKeepsState ==
  [][ (ReadNextInstruction /\ err' = "UnknownOpcode") => UNCHANGED StateVars ]_vars

\* 5001 reported unknown after 6107 and A2F0 ran
C2_Witness ==
  /\ err = "UnknownOpcode"
  /\ opcode = 20481
  /\ regV[1] = 7
  /\ regI = 752
  /\ pc = pcStartAddr + 4

\* C3: in every reachable state 0 <= SP < 16.
C3_StackPointerInRange == 0 <= sp /\ sp < StackSize

\* the stack holds, bottom up, the call sites not yet returned from
StackHoldsCallSites ==
  /\ Len(calls) <= StackSize
  /\ err # "OutOfBounds" => sp = Len(calls)
  /\ \A i \in 1..Len(calls) : stack[i - 1] = calls[i]

\* a 00EE with a call pending continues two bytes after the latest call site
RetRestoresCallSite ==
  (ReadNextInstruction /\ IsRET /\ Len(calls) > 0)
    => /\ pc' = calls[Len(calls)] + 2
       /\ sp' = sp - 1
       /\ err' = "nil"

\* C4: up to 16 nested calls unwind in reverse order: every 00EE sets PC to
\* its matching call site plus 2, no saved address is lost, and SP is 0
\* again after the last return.
C4_NestedCallsUnwind == [](StackHoldsCallSites) /\ [][RetRestoresCallSite]_vars

\* 16 nested calls have returned to the main routine
C4_Witness ==
  /\ sp = 0
  /\ calls = << >>
  /\ stack[StackSize - 1] = pcStartAddr + 4 * (StackSize - 1)
  /\ opcode = 238
  /\ pc = pcStartAddr + 2
  /\ err = "nil"

\* C5: in a run that reports no error the PC of every fetch is even and in
\* 0x200..0xFFF.
C5_FetchAddressValid ==
  [][ (ReadNextInstruction /\ err \in {"none", "nil"} /\ err' = "nil")
        => (pc % 2 = 0 /\ pcStartAddr <= pc /\ pc <= totalMemory - 1) ]_vars

\* C6: a cycle begun with pc+1 past the memory ends OutOfBounds, decodes no
\* opcode and leaves the VM state unchanged.
C6_FetchOutOfBounds ==
  [][ (ReadNextInstruction /\ pc + 1 > totalMemory - 1)
        => (err' = "OutOfBounds" /\ UNCHANGED << opcode, StateVars >>) ]_vars

\* the fetch at 0xFFF after 1FFF
C6_Witness ==
  /\ err = "OutOfBounds"
  /\ pc = totalMemory - 1
  /\ opcode = 8191

\* C7: memory 0x000-0x04F holds the font table in every reachable state.
C7_FontNeverMutated == \A a \in 0..(Len(fontset) - 1) : memory[a] = fontset[a + 1]

\* ------------------------------------------------------------ LoadProgram at any time

\* V10 = 0x11; a call of 0x206 from 0x202; loops at 0x204 and at 0x206
RunningProgram == Bytes(<< 27153, 8710, 4612, 4614 >>)

\* n bytes of the instruction 1206
Filled(n) == [i \in 1..n |-> IF i % 2 = 1 THEN 18 ELSE 6]

\* files of no, one, two and eight bytes, of the largest size and of one byte more
LoadInputs ==
  { << >>, << 18 >>, << 106, 17 >>, RunningProgram,
    Filled(maxProgramSize), Filled(maxProgramSize + 1) }

\* LoadProgram called by any caller, also between cycles
LoadAny == \E data \in LoadInputs : LoadProgram(data)

NextLoad == LoadAny \/ ReadNextInstruction

SpecLoad == Init /\ [][NextLoad]_vars

\* mem with the size bytes from 0x200 masked: two memories agree on every
\* byte outside 0x200..0x200+size-1 iff they are equal when masked
OutsideProgram(mem, size) == [a \in 512..(511 + size) |-> 0] @@ mem

\* C8: LoadProgram of more than 3584 bytes fails with ProgramTooLarge and
\* keeps memory; of at most 3584 bytes it succeeds, memory[0x200+i] is byte i,
\* every other byte of memory keeps its value; registers, PC, SP and the
\* stack are never reset.
C8_LoadProgram ==
  [][ \A data \in LoadInputs : \A size \in { Len(data) } :
        LoadProgram(data) =>
          /\ IF size > 3584
               THEN err' = "ProgramTooLarge" /\ memory' = memory
               ELSE /\ err' = "nil"
                    /\ \A i \in 0..(size - 1) : memory'[512 + i] = data[i + 1]
                    /\ OutsideProgram(memory', size) = OutsideProgram(memory, size)
          /\ UNCHANGED << regV, regI, pc, sp, stack, delayTimer, soundTimer,
                          key, pixels, clearFlag, drawFlag >> ]_vars

\* a file of exactly 3584 bytes loaded over RunningProgram, after it ran
C8_Witness ==
  /\ err = "nil"
  /\ opcode = 8710
  /\ memory[pcStartAddr] = 18
  /\ memory[totalMemory - 1] = 6
  /\ regV[10] = 17
  /\ sp = 1
  /\ stack[0] = pcStartAddr + 2
  /\ pc = pcStartAddr + 6

\* ------------------------------------------------------------ 8xy4 and 8xy5

\* the values the two operand registers are given
OperandValues == {0, 1, 200, 255}

\* Vx = a, Vy = b, then 8xyn
AluProgram(x, y, a, b, n) ==
  Bytes(<< 24576 + x * 256 + a, 24576 + y * 256 + b, 32768 + x * 256 + y * 16 + n >>)

AluPrograms ==
  { AluProgram(x, y, a, b, n) :
      x \in 0..15, y \in 0..15, a \in OperandValues, b \in OperandValues, n \in {4, 5} }

LoadAlu == err = "none" /\ \E data \in AluPrograms : LoadProgram(data)

NextAlu == LoadAlu \/ ReadNextInstruction

SpecAlu == Init /\ [][NextAlu]_vars

\* the next cycle executes 8xyn
IsOp8(n) == Fetched(VM).ok /\ NextOp \div 4096 = 8 /\ NextOp % 16 = n

OpX == (NextOp \div 256) % 16

OpY == (NextOp \div 16) % 16

\* C9: after 8xy5, VF = 1 iff Vx > Vy and register x holds (Vx - Vy) mod 256,
\* Vx and Vy being the values before the instruction, for every x and y.
C9_SubBorrow ==
  [][ (ReadNextInstruction /\ IsOp8(5))
        => /\ regV'[15] = (IF regV[OpX] > regV[OpY] THEN 1 ELSE 0)
           /\ regV'[OpX] = (regV[OpX] - regV[OpY]) % 256 ]_vars

\* C10 as stated: after 8xy4, VF = 1 iff Vx + Vy > 255 and register x holds
\* (Vx + Vy) mod 256, for every x and y.
C10_AddCarryAllX ==
  [][ (ReadNextInstruction /\ IsOp8(4))
        => /\ regV'[15] = (IF regV[OpX] + regV[OpY] > 255 THEN 1 ELSE 0)
           /\ regV'[OpX] = (regV[OpX] + regV[OpY]) % 256 ]_vars

\* C10 as amended: after 8xy4 register x holds (Vx + Vy) mod 256 for every x
\* and y, and VF = 1 iff Vx + Vy > 255 when x is not F; for x = F the sum
\* replaces the carry in VF.
C10_AddCarry ==
  [][ (ReadNextInstruction /\ IsOp8(4))
        => /\ regV'[OpX] = (regV[OpX] + regV[OpY]) % 256
           /\ OpX # 15 => regV'[15] = (IF regV[OpX] + regV[OpY] > 255 THEN 1 ELSE 0)
           /\ \A i \in 0..14 : i # OpX => regV'[i] = regV[i] ]_vars

\* 8FE4 with VF = 200 and VE = 255: the sum 455 leaves 199 in VF
C10_Witness ==
  /\ opcode = 36836
  /\ err = "nil"
  /\ regV[14] = 255
  /\ regV[15] = 199
  /\ pc = pcStartAddr + 6

\* ------------------------------------------------------------ key events

\* the key codes IO.keymap gives
KeyCodes == 0..15

\* the most bits of the key mask set at once
MaxHeld == 2

\* the number of bits set in a key mask
Held(mask) == Cardinality({ k \in KeyCodes : Bit(mask, k) = 1 })

KeyDown ==
  \E code \in KeyCodes :
    Held(SetKeymaskOf(VM, code).key) <= MaxHeld /\ SetKeymask(code)

KeyUp ==
  \E code \in KeyCodes :
    Held(UnsetKeymaskOf(VM, code).key) <= MaxHeld /\ UnsetKeymask(code)

NextKeys == KeyUp \/ KeyDown

SpecKeys == Init /\ [][NextKeys]_vars

\* C11: after a key-down for key k bit k of the key mask is set, after a
\* key-up for key k it is clear, whatever came before, and an event for key k
\* leaves the bit of every other key as it was.
C11_KeyMaskTracksKeys ==
  [][ \A k \in KeyCodes :
        /\ SetKeymask(k) => Bit(key', k) = 1
        /\ UnsetKeymask(k) => Bit(key', k) = 0
        /\ (SetKeymask(k) \/ UnsetKeymask(k))
             => \A j \in KeyCodes \ {k} : Bit(key', j) = Bit(key, j) ]_vars

\* ------------------------------------------------------------ Ex9E, ExA1, Fx0A

\* the keys pressed and released around the key instructions
PolledKeys == {0, 5, 15}

\* the values Vx is given: key codes, 16 and 21 (5 + 16) above them, 255
KeyOperands == {0, 1, 5, 15, 16, 21, 255}

\* Vx = v, then Ex9E, ExA1 or Fx0A
KeyPrograms ==
  { Bytes(<< 24576 + x * 256 + v, op + x * 256 >>) :
      x \in {0, 1}, v \in KeyOperands, op \in {57502, 57505, 61450} }

LoadKeyProgram == err = "none" /\ \E data \in KeyPrograms : LoadProgram(data)

PressKey == \E code \in PolledKeys : SetKeymask(code)

ReleaseKey == \E code \in PolledKeys : UnsetKeymask(code)

NextKeyOps == LoadKeyProgram \/ ReadNextInstruction \/ PressKey \/ ReleaseKey

SpecKeyOps == Init /\ [][NextKeyOps]_vars

\* the next cycle executes Exkk
IsOpE(kk) == Fetched(VM).ok /\ NextOp \div 4096 = 14 /\ NextOp % Byte = kk

\* the next cycle executes Fxkk
IsOpF(kk) == Fetched(VM).ok /\ NextOp \div 4096 = 15 /\ NextOp % Byte = kk

\* key code is a key of the keypad and its bit is set in mask
KeyIsDown(mask, code) == code \in KeyCodes /\ Bit(mask, code) = 1

\* C12: when Fx0A completes, register x holds the code of a key whose bit
\* is set in the key mask the instruction saw, and PC has advanced by 2.
C12_WaitKeyStoresKey ==
  [][ (ReadNextInstruction /\ IsOpF(10) /\ err' = "nil")
        => (KeyIsDown(key, regV'[OpX]) /\ pc' = pc + 2) ]_vars

\* C19: Ex9E advances PC by 4 exactly when Vx is a key code 0x0-0xF whose bit
\* is set in the key mask, and by 2 otherwise; ExA1 advances PC by 4 exactly
\* in the other case.
C19_SkipOnKey ==
  [][ /\ (ReadNextInstruction /\ IsOpE(158))
           => pc' = pc + (IF KeyIsDown(key, regV[OpX]) THEN 4 ELSE 2)
      /\ (ReadNextInstruction /\ IsOpE(161))
           => pc' = pc + (IF KeyIsDown(key, regV[OpX]) THEN 2 ELSE 4) ]_vars

\* C20: Fx0A executed with at least one bit of the key mask set returns,
\* whatever the value of Vx.
C20_WaitKeyReturns ==
  [][ (ReadNextInstruction /\ IsOpF(10) /\ key # 0) => err' # "hang" ]_vars

\* ------------------------------------------------------------ Dxyn

\* the next cycle executes Dxyn with this n
IsOpD(n) == Fetched(VM).ok /\ NextOp \div 4096 = 13 /\ NextOp % 16 = n

\* C13: Dxy0 reports UnknownOpcode and does not reset VF, touch the
\* framebuffer, set the draw flag or advance PC.
C13_DrawHeightZero ==
  [][ (ReadNextInstruction /\ IsOpD(0))
        => /\ err' = "UnknownOpcode"
           /\ UNCHANGED << regV, pixels, drawFlag, pc >> ]_vars

\* two sprites of 15 rows, kept in the program after its code; the first row
\* of the second has no bit set
SpriteA == << 255, 129, 165, 15, 240, 1, 128, 60, 195, 90, 36, 102, 153, 24, 231 >>

SpriteB == << 0, 170, 85, 255, 204, 51, 15, 240, 129, 126, 1, 2, 4, 8, 16 >>

\* where the program below keeps SpriteA and SpriteB
SpriteAddr(second) == pcStartAddr + 16 + (IF second THEN Len(SpriteA) ELSE 0)

\* the origins: the corners, columns and rows that wrap, values above the
\* screen size and values whose uint8 sum with the sprite size wraps
OriginsX == {0, 60, 255}

OriginsY == {0, 25, 250}

\* V0 = vx, V1 = vy; SpriteA drawn in full first (or V0 = vx again, which
\* leaves the framebuffer blank); then I at one sprite, D01n twice, and a
\* loop
DrawProgram(vx, vy, n, prior, second) ==
  Bytes(<< 24576 + vx,
           24832 + vy,
           40960 + SpriteAddr(FALSE),
           IF prior THEN 53279 ELSE 24576 + vx,
           40960 + SpriteAddr(second),
           53264 + n,
           53264 + n,
           4096 + pcStartAddr + 14 >>) \o SpriteA \o SpriteB

DrawPrograms ==
  { DrawProgram(vx, vy, n, prior, second) :
      vx \in OriginsX, vy \in OriginsY, n \in 1..15,
      prior \in BOOLEAN, second \in BOOLEAN }

LoadDraw == err = "none" /\ \E data \in DrawPrograms : LoadProgram(data)

NextDraw == LoadDraw \/ ReadNextInstruction

SpecDraw == Init /\ [][NextDraw]_vars

\* the next cycle executes Dxyn with a height in 1..15
IsDraw == \E n \in 1..15 : IsOpD(n)

\* the sprite bit of column c (0 the most significant bit) of row r, read at I
SpriteBit(r, c) == Bit(memory[regI + r], 7 - c)

\* the cell (w, h) after the sprite of n rows at I is XORed in at (vx, vy)
CellAfterDraw(w, h, vx, vy, n) ==
  LET c == (w + Byte - vx) % ScreenWidth
      r == (h + Byte - vy) % ScreenHeight
  IN IF c < 8 /\ r < n THEN (pixels[w][h] + SpriteBit(r, c)) % 2 ELSE pixels[w][h]

\* C15: Dxyn with n in 1..15 XORs the bit in column c of sprite row r into
\* the cell ((Vx + c) mod 64, (Vy + r) mod 32) and changes no other cell.
C15_DrawWrapsAround ==
  [][ (ReadNextInstruction /\ IsDraw /\ err' = "nil")
        => \A w \in 0..(ScreenWidth - 1) : \A h \in 0..(ScreenHeight - 1) :
             pixels'[w][h] = CellAfterDraw(w, h, regV[OpX], regV[OpY], NextOp % 16) ]_vars

\* SpriteA's first row (0xFF) drawn once at (60, 25) on a blank screen:
\* columns 60..63 and 0..3 are lit, column 4 is not
C15_Witness ==
  /\ opcode = 53265
  /\ pc = pcStartAddr + 12
  /\ regV[0] = 60 /\ regV[1] = 25
  /\ regI = SpriteAddr(FALSE)
  /\ \A w \in (60..63) \cup (0..3) : pixels[w][25] = 1
  /\ pixels[4][25] = 0 /\ pixels[59][25] = 0

\* the next two cycles execute the same Dxyn, whose origin registers are not
\* VF (which the first draw rewrites)
SameDrawTwice ==
  /\ IsDraw
  /\ OpX # 15 /\ OpY # 15
  /\ pc + 3 < totalMemory
  /\ memory[pc + 2] * Byte + memory[pc + 3] = NextOp

\* the sprite of the next Dxyn has a 1 bit
SpriteHasBit == \E r \in 0..((NextOp % 16) - 1) : memory[regI + r] # 0

\* a 1 bit of the sprite of the next Dxyn falls on a cell that is 0
SpriteBitOnBlank ==
  \E r \in 0..((NextOp % 16) - 1) : \E c \in 0..7 :
    /\ SpriteBit(r, c) = 1
    /\ pixels[(regV[OpX] + c) % ScreenWidth][(regV[OpY] + r) % ScreenHeight] = 0

MaxTimer == 3

\* the pairs of values the two timers are set to: the small ones, and 255
\* for either timer
TimerPairs ==
  ((0..MaxTimer) \X (0..MaxTimer)) \cup { << 255, 0 >>, << 1, 255 >> }

\* V0 = d, DT = V0, V1 = s, ST = V1, and a loop
TimerProgram(d, s) ==
  Bytes(<< 24576 + d, 61461, 24832 + s, 61720, 4096 + pcStartAddr + 8 >>)

LoadTimers ==
  err = "none" /\ \E p \in TimerPairs : LoadProgram(TimerProgram(p[1], p[2]))

NextTimers ==
  LoadTimers \/ ReadNextInstruction \/ DecrementDelayTimer \/ DecrementSoundTimer

SpecTimers == Init /\ [][NextTimers]_vars

\* each timer is a byte
TimersInRange == delayTimer \in 0..255 /\ soundTimer \in 0..255

\* a decrement lowers a timer above 0 by one, leaves a timer that is 0 at 0,
\* and leaves the other timer alone
TimerDecrements ==
  /\ DecrementDelayTimer
       => /\ delayTimer' = (IF delayTimer > 0 THEN delayTimer - 1 ELSE 0)
          /\ soundTimer' = soundTimer
  /\ DecrementSoundTimer
       => /\ soundTimer' = (IF soundTimer > 0 THEN soundTimer - 1 ELSE 0)
          /\ delayTimer' = delayTimer

\* C16: after any sequence of Fx15/Fx18 writes and decrements each timer
\* is in 0..255; a decrement lowers a timer above 0 by exactly 1, leaves a
\* timer that is 0 at 0, and never changes the other timer.
C16_TimersClampAtZero == [](TimersInRange) /\ [][TimerDecrements]_vars

\* DT set to 2 and ST to 3, then DT decremented to 0 and ST to 1
C16_Witness ==
  /\ opcode = 61720
  /\ regV[0] = 2 /\ regV[1] = 3
  /\ delayTimer = 0
  /\ soundTimer = 1

\* ------------------------------------------------------------ Fx55 and Fx65

\* the sixteen register values before the store, and the sixteen values the
\* registers are overwritten with after it
StoredValues == [i \in 1..16 |-> (17 * (i - 1) + 3) % Byte]

OverwriteValues == [i \in 1..16 |-> 256 - i]

\* the addresses of the two tables in a store program
StoredAddr == pcStartAddr + 18

OverwriteAddr == pcStartAddr + 34

\* the address of the last instruction of a store program, a jump to itself
StoreLoopAddr == pcStartAddr + 16

\* the values I is set to for the store: in the middle of the memory, with
\* I + 15 the last byte of the memory, and with I + 7 the last byte
StoreAddrs == { 768, totalMemory - 16, totalMemory - 8 }

\* V0..VF = StoredValues; I = addr; Fx55; V0..VF = OverwriteValues;
\* I = addr; Fx65; and a loop
StoreProgram(x, addr) ==
  Bytes(<< 40960 + StoredAddr, 65381,
           40960 + addr, 61440 + 256 * x + 85,
           40960 + OverwriteAddr, 65381,
           40960 + addr, 61440 + 256 * x + 101,
           4096 + StoreLoopAddr >>)
    \o StoredValues \o OverwriteValues

StorePrograms == { StoreProgram(x, addr) : x \in 0..15, addr \in StoreAddrs }

LoadStore == err = "none" /\ \E data \in StorePrograms : LoadProgram(data)

NextStore == LoadStore \/ ReadNextInstruction

SpecStore == Init /\ [][NextStore]_vars

\* a cycle that has executed Fx55 and returned nil
StoreStep ==
  /\ IsOpF(85)
  /\ ReadNextInstruction
  /\ err' = "nil"

\* a cycle that has executed Fx65 and returned nil
LoadStep ==
  /\ IsOpF(101)
  /\ ReadNextInstruction
  /\ err' = "nil"

\* Fx55 stores V0..Vx at I..I+x and changes neither a register nor I
StoreKeepsRegisters ==
  StoreStep =>
    /\ \A i \in 0..OpX : memory'[regI + i] = regV[i]
    /\ regV' = regV
    /\ regI' = regI

\* Fx65 loads V0..Vx from I..I+x and changes neither a register above x nor I
LoadKeepsRest ==
  LoadStep =>
    /\ \A i \in 0..OpX : regV'[i] = memory[regI + i]
    /\ \A i \in (OpX + 1)..15 : regV'[i] = regV[i]
    /\ regI' = regI

\* the x of the instruction executed last
LastX == (opcode \div 256) % 16

\* the Fx65 that ends a store program has returned nil
Restored ==
  /\ opcode \div 4096 = 15 /\ opcode % Byte = 101
  /\ err = "nil"
  /\ pc = StoreLoopAddr

\* after that Fx65, V0..Vx hold the values stored by Fx55 and the registers
\* above x the values they were overwritten with
RoundTrip ==
  Restored =>
    /\ \A i \in 0..LastX : regV[i] = StoredValues[i + 1]
    /\ \A i \in (LastX + 1)..15 : regV[i] = OverwriteValues[i + 1]

\* C17: for every x in 0..F, after Fx55 memory[I+i] = Vi for all i <= x,
\* and a later Fx65 with the same x and I, after V0..Vx were overwritten,
\* restores V0..Vx to the stored values; I and the registers above x are
\* unchanged by both instructions.
C17_StoreLoadRoundTrip ==
  /\ [][StoreKeepsRegisters /\ LoadKeepsRest]_vars
  /\ [](RoundTrip)

\* F755 and F765 at I = 0xFF8: V7 is restored from the last byte of the memory
C17_Witness ==
  /\ Restored
  /\ LastX = 7
  /\ regI = totalMemory - 8
  /\ memory[totalMemory - 1] = StoredValues[8]
  /\ regV[7] = StoredValues[8]
  /\ regV[8] = OverwriteValues[9]

\* ------------------------------------------------------------ 8xy6 and 8xyE

\* the registers named by x and y, and the values Vx and Vy are set to
ShiftRegs == {0, 14, 15}

ShiftOperands == {0, 1, 7, 128, 129, 255}

\* Vx = a, Vy = b, then 8xy6 or 8xyE
ShiftPrograms ==
  { AluProgram(x, y, a, b, n) :
      x \in ShiftRegs, y \in ShiftRegs,
      a \in ShiftOperands, b \in ShiftOperands, n \in {6, 14} }

LoadShift == err = "none" /\ \E data \in ShiftPrograms : LoadProgram(data)

NextShift == LoadShift \/ ReadNextInstruction

SpecShift == Init /\ [][NextShift]_vars

\* C18: for every x and y with y different from x, after 8xy6 VF = Vx & 1
\* and register x holds Vx >> 1, and after 8xyE VF = 1 iff Vx & 0x80 is
\* nonzero and register x holds (Vx << 1) mod 256, Vx being the value before
\* the instruction; neither depends on Vy.
C18_ShiftUsesVxOnly ==
  [][ /\ (ReadNextInstruction /\ IsOp8(6) /\ OpY # OpX)
           => /\ regV'[15] = regV[OpX] % 2
              /\ regV'[OpX] = regV[OpX] \div 2
      /\ (ReadNextInstruction /\ IsOp8(14) /\ OpY # OpX)
           => /\ regV'[15] = (IF regV[OpX] >= 128 THEN 1 ELSE 0)
              /\ regV'[OpX] = (regV[OpX] * 2) % 256 ]_vars

\* ------------------------------------------------------------ IO.Loop

\* IO.clearScreen without UnsetClearFlag
clearScreenOf_KeepingFlag(s) == NullifyPixelsOf(s)

\* IO.clearScreen: NullifyPixels, then UnsetClearFlag
clearScreenOf(s) == [NullifyPixelsOf(s) EXCEPT !.clearFlag = FALSE]

\* IO.draw: the pixels are read and painted, then UnsetDrawFlag
drawOf(s) == [s EXCEPT !.drawFlag = FALSE]

\* the timer tick of IO.Loop: each timer above 0 is decremented
TickOf(s) ==
  LET d == IF s.delayTimer > 0 THEN DecrementDelayTimerOf(s) ELSE s
  IN IF d.soundTimer > 0 THEN DecrementSoundTimerOf(d) ELSE d

\* IO.setKeymask and IO.unsetKeymask on the code keymap returns, -1 for a
\* key that is not mapped
setKeymask(s, code) == IF code # -1 THEN SetKeymaskOf(s, code) ELSE s

unsetKeymask(s, code) == IF code # -1 THEN UnsetKeymaskOf(s, code) ELSE s

\* the events the input source produces: a key goes down or up, or the
\* window is closed
KeyEvents ==
  { [type |-> ty, code |-> c] : ty \in {"KEYDOWN", "KEYUP"}, c \in {0, 5} }
    \cup { [type |-> "QUIT", code |-> -1] }

\* the most events waiting in the queue
MaxPending == 1

\* the input source puts an event in the queue, at any time
InputEvent ==
  /\ at # "exit"
  /\ Len(events) < MaxPending
  /\ \E e \in KeyEvents : events' = Append(events, e)
  /\ UNCHANGED << opcode, regV, regI, delayTimer, soundTimer, pc, sp, stack,
                  memory, clearFlag, drawFlag, key, pixels, err, calls, at,
                  running >>

\* err := io.vm.ReadNextInstruction(); an error ends the process, and so
\* does a panic. A cycle that is inside the loop of Fx0A stays in this
\* statement: the step from there is one more pass of that loop.
LoopCycle ==
  /\ at = "cycle"
  /\ err \notin { "none", "OutOfBounds" }
  /\ \E rnd \in (IF IsRND THEN 0..255 ELSE {0}) :
       \E t \in { Exec(VM, rnd) } :
         /\ Commit(t)
         /\ calls' = CallsAfter(t)
         /\ at' = (CASE t.err = "nil" -> "clear"
                     [] t.err = "hang" -> "cycle"
                     [] OTHER -> "exit")
  /\ UNCHANGED << running, events >>

\* if io.vm.IsClearFlagSet() { io.clearScreen() }
LoopClear ==
  /\ at = "clear"
  /\ \E t \in { IF clearFlag THEN clearScreenOf(VM) ELSE VM } : Commit(t)
  /\ at' = "draw"
  /\ UNCHANGED << calls, running, events >>

\* if io.vm.IsDrawFlagSet() { io.draw() }
LoopDraw ==
  /\ at = "draw"
  /\ \E t \in { IF drawFlag THEN drawOf(VM) ELSE VM } : Commit(t)
  /\ at' = "tick"
  /\ UNCHANGED << calls, running, events >>

\* the timers are decremented when TimerFrequency milliseconds have passed
LoopTick ==
  /\ at = "tick"
  /\ \E elapsed \in BOOLEAN :
       \E t \in { IF elapsed THEN TickOf(VM) ELSE VM } : Commit(t)
  /\ at' = "poll"
  /\ UNCHANGED << calls, running, events >>

\* one pass of the loop over sdl.PollEvent(); with no event left the body
\* of the main loop starts again, or the loop ends when running is false
LoopPoll ==
  /\ at = "poll"
  /\ IF events = << >>
       THEN /\ at' = (IF running THEN "cycle" ELSE "exit")
            /\ UNCHANGED << opcode, regV, regI, delayTimer, soundTimer, pc, sp,
                            stack, memory, clearFlag, drawFlag, key, pixels,
                            err, running, events >>
       ELSE LET e == Head(events) IN
            /\ \E t \in { CASE e.type = "KEYDOWN" -> setKeymask(VM, e.code)
                             [] e.type = "KEYUP" -> unsetKeymask(VM, e.code)
                             [] OTHER -> VM } : Commit(t)
            /\ running' = (IF e.type = "QUIT" THEN FALSE ELSE running)
            /\ events' = Tail(events)
            /\ at' = "poll"
  /\ UNCHANGED calls

\* V1 = 1; DT = V1; draw the glyph 0 at (0, 0); clear; draw it again; wait
\* for a key into V0; jump back to the first draw
LoopProgram ==
  Bytes(<< 24833, 61717, 53253, 224, 53253, 61450, 4096 + pcStartAddr + 4 >>)

LoadLoop == err = "none" /\ LoadProgram(LoopProgram)

\* the goroutine of IO.Loop
LoopStep == LoopCycle \/ LoopClear \/ LoopDraw \/ LoopTick \/ LoopPoll

NextLoop == LoadLoop \/ LoopStep \/ InputEvent

SpecLoop == Init /\ [][NextLoop]_vars

\* V1 = 1; DT = V1; clear; wait for a key into V0; jump back to the clear
WaitProgram == Bytes(<< 24833, 61717, 224, 61450, 4096 + pcStartAddr + 4 >>)

LoadWait == err = "none" /\ LoadProgram(WaitProgram)

NextWait == LoadWait \/ LoopStep \/ InputEvent

\* main and the goroutine of IO.Loop run whenever they can take a step; the
\* input source is under no obligation
SpecWaitFair ==
  Init /\ [][NextWait]_vars /\ WF_vars(LoadWait) /\ WF_vars(LoopStep)

\* the cycle is inside the loop of Fx0A
InsideWait == at = "cycle" /\ err = "hang"

\* a key-down event for a key of the keypad waits in the queue
KeyPressPending ==
  \E i \in 1..Len(events) : events[i].type = "KEYDOWN" /\ events[i].code \in KeyCodes

\* C21: when Fx0A is reached with no key down and the input source then
\* produces a key-down event, the event reaches the key mask and Fx0A
\* completes: the loop does not stay inside the wait for ever while a key
\* press is pending.
C21_WaitKeyCompletes == (InsideWait /\ key = 0 /\ KeyPressPending) ~> ~InsideWait

\* ------------------------------------------------------------ Dxyn and VF

\* the registers that hold the origin, VF among them
CollideRegs == { << 0, 1 >>, << 15, 1 >>, << 0, 15 >>, << 15, 15 >>, << 0, 0 >> }

\* the origins: on, beside and away from a sprite drawn at (0, 0)
CollideX == {0, 1, 62}

CollideY == {0, 1, 31}

\* the values VF holds before the draw when it is not an origin register
PriorVF == {1, 200}

\* SpriteA drawn in full at (0, 0) first (or I set again, which leaves the
\* framebuffer blank); then Vx = vx, Vy = vy, VF = vf unless x or y is F;
\* I at one sprite, Dxyn, and a loop
CollideProgram(x, y, vx, vy, vf, n, prior, second) ==
  Bytes(<< 40960 + SpriteAddr(FALSE),
           IF prior THEN 53823 ELSE 40960 + SpriteAddr(FALSE),
           24576 + 256 * x + vx,
           24576 + 256 * y + vy,
           IF x = 15 \/ y = 15 THEN 24576 + 256 * y + vy ELSE 24576 + 256 * 15 + vf,
           40960 + SpriteAddr(second),
           53248 + 256 * x + 16 * y + n,
           4096 + pcStartAddr + 14 >>) \o SpriteA \o SpriteB

CollidePrograms ==
  { CollideProgram(xy[1], xy[2], vx, vy, vf, n, prior, second) :
      xy \in CollideRegs, vx \in CollideX, vy \in CollideY, vf \in PriorVF,
      n \in {1, 15}, prior \in BOOLEAN, second \in BOOLEAN }

LoadCollide == err = "none" /\ \E data \in CollidePrograms : LoadProgram(data)

NextCollide == LoadCollide \/ ReadNextInstruction

SpecCollide == Init /\ [][NextCollide]_vars

\* a 1 bit of the sprite of the next Dxyn falls on a cell that is 1
SpriteBitOnLit ==
  \E r \in 0..((NextOp % 16) - 1) : \E c \in 0..7 :
    /\ SpriteBit(r, c) = 1
    /\ pixels[(regV[OpX] + c) % ScreenWidth][(regV[OpY] + r) % ScreenHeight] = 1

\* C22: after Dxyn with n in 1..15, VF = 1 iff a 1 bit of the sprite fell on
\* a cell that was 1 before the draw, and VF = 0 otherwise, whatever VF held
\* before and also when x or y is F: the origin is the register values
\* before VF is reset.
C22_DrawSetsCollision ==
  [][ (ReadNextInstruction /\ IsDraw /\ err' = "nil")
        => regV'[15] = (IF SpriteBitOnLit THEN 1 ELSE 0) ]_vars

\* DF11 with VF = 1 and V1 = 0 over SpriteA: the row 0xFF drawn at column 1
\* meets the row 0xFF at column 0
C22_Witness ==
  /\ opcode = 57105
  /\ regI = SpriteAddr(FALSE)
  /\ regV[1] = 0
  /\ regV[15] = 1
  /\ pixels[0][0] = 1 /\ pixels[1][0] = 0 /\ pixels[7][0] = 0 /\ pixels[8][0] = 1

\* ------------------------------------------------------------ Fx29

\* the digits 0 and F, the last value whose product by 5 is a byte, the
\* first whose product is not, and the largest byte
GlyphOperands == {0, 1, 15, 51, 52, 255}

\* Vx = v, then Fx29
GlyphPrograms ==
  { Bytes(<< 24576 + 256 * x + v, 61440 + 256 * x + 41 >>) :
      x \in 0..15, v \in GlyphOperands }

LoadGlyph == err = "none" /\ \E data \in GlyphPrograms : LoadProgram(data)

NextGlyph == LoadGlyph \/ ReadNextInstruction

SpecGlyph == Init /\ [][NextGlyph]_vars

\* C23: after Fx29, I = 5 * Vx as an unwrapped 16-bit value, for every Vx
\* in 0..255 (Vx = 52 gives I = 260).
C23_GlyphAddress ==
  [][ (ReadNextInstruction /\ IsOpF(41)) => regI' = 5 * regV[OpX] ]_vars

\* ------------------------------------------------------------ the flags

\* the instruction executed last is 00E0 (the 0x0000 family looks at kk
\* only), or Dxyn, and it returned nil
ExecutedCLS == err = "nil" /\ opcode \div 4096 = 0 /\ opcode % Byte = 224

ExecutedDRW == err = "nil" /\ opcode \div 4096 = 13

Blank == [w \in 0..(ScreenWidth - 1) |-> [h \in 0..(ScreenHeight - 1) |-> 0]]

\* at every fetch both flags are false
FlagsClearAtFetch == at = "cycle" => (~clearFlag /\ ~drawFlag)

\* once the loop is past its test of the clear flag after a 00E0, the
\* framebuffer is blank and the flag false until the next fetch; and past
\* its test of the draw flag after a Dxyn the draw flag is false
FlagsHandled ==
  /\ (ExecutedCLS /\ at \in {"draw", "tick", "poll", "cycle"})
       => (pixels = Blank /\ ~clearFlag)
  /\ (ExecutedDRW /\ at \in {"tick", "poll", "cycle"}) => ~drawFlag

\* the framebuffer changes only in a cycle that executes Dxyn, and in the
\* clear that follows the cycle of a 00E0 at once
ClearsOnlyAfterCLS ==
  pixels' # pixels
    => \/ at = "cycle" /\ NextOp \div 4096 = 13
       \/ at = "clear" /\ ExecutedCLS /\ pixels' = Blank

\* C24: under the driver loop every executed 00E0 is followed, before the
\* next fetch, by a blank framebuffer and a false clear flag, and every
\* executed Dxyn by a false draw flag; at every fetch both flags are false,
\* and no pixel drawn after a 00E0 is erased by that clear.
C24_FlagsHandledBeforeFetch ==
  /\ [](FlagsClearAtFetch /\ FlagsHandled)
  /\ [][ClearsOnlyAfterCLS]_vars

\* the 00E0 that follows the first draw has been executed and handled: the
\* glyph is gone and the next fetch is the second draw
C24_Witness ==
  /\ at = "cycle"
  /\ ExecutedCLS
  /\ pc = pcStartAddr + 8
  /\ pixels = Blank
  /\ ~clearFlag /\ ~drawFlag

\* ------------------------------------------------------------ I and the memory

\* the values Annn gives I, and the values of V0 that Fx1E adds to it
AddrOperands == {768, totalMemory - 3, totalMemory - 2, totalMemory - 1}

AddOperands == {0, 1, 255}

\* D001, D00F, F033, F055, FF55, F065, FF65
AddrOps == {53249, 53263, 61491, 61525, 65365, 61541, 65381}

\* I = nnn; V0 = v; I += V0 twice; then the instruction that uses I
AddrPrograms ==
  { Bytes(<< 40960 + nnn, 24576 + v, 61470, 61470, op >>) :
      nnn \in AddrOperands, v \in AddOperands, op \in AddrOps }

LoadAddr == err = "none" /\ \E data \in AddrPrograms : LoadProgram(data)

NextAddr == LoadAddr \/ ReadNextInstruction

SpecAddr == Init /\ [][NextAddr]_vars

\* the next cycle executes Dxyn, Fx33, Fx55 or Fx65
UsesI ==
  /\ Fetched(VM).ok
  /\ \/ NextOp \div 4096 = 13
     \/ NextOp \div 4096 = 15 /\ NextOp % Byte \in {51, 85, 101}

\* C25: every memory access of Dxyn, Fx33, Fx55 and Fx65 uses an address in
\* 0x000..0xFFF, for every value I can take after Annn and Fx1E, so that no
\* cycle aborts on an index out of range.
C25_AddressesInMemory ==
  [][ (ReadNextInstruction /\ UsesI) => err' # "OutOfBounds" ]_vars

\* ------------------------------------------------------------ package emulator

\* The cycle of package emulator (the VM coupled to its IO layer), on the
\* same record: io.pixels, io.key, io.clearFlag and io.drawFlag are the
\* fields pixels, key, clearFlag and drawFlag. The arms of its switch whose
\* statements are those of package internal use the operators above.

\* emulator.unknownOpcode prints the opcode and ends the process
emulator_unknownOpcode(s) == [s EXCEPT !.err = "exit"]

\* emulator.initSprite: the process ends before VF is reset when n is 0
emulator_initSprite(s, x, y, n) ==
  IF n > 15 \/ n = 0 THEN emulator_unknownOpcode(s)
  ELSE DrawRows([s EXCEPT !.regV[15] = 0], x, y, n, 0)

\* Dxyn
emulator_OpDRW(s, x, y, n) ==
  LET t == emulator_initSprite(s, s.regV[x], s.regV[y], n)
  IN IF t.err # "nil" THEN t
     ELSE [Advance(t, 2) EXCEPT !.drawFlag = TRUE]

\* the switch on kk of the 0x0000 family
emulator_Op0(s, kk) ==
  CASE kk = 224 -> OpCLS(s)
    [] kk = 238 -> OpRET(s)
    [] OTHER -> emulator_unknownOpcode(s)

\* the 0x8000 family; pc += 2 follows the inner switch
emulator_Op8(s, x, y, n) ==
  CASE n = 0 -> Advance([s EXCEPT !.regV[x] = s.regV[y]], 2)
    [] n = 1 -> Advance([s EXCEPT !.regV[x] = BitOr(s.regV[x], s.regV[y])], 2)
    [] n = 2 -> Advance([s EXCEPT !.regV[x] = BitAnd(s.regV[x], s.regV[y])], 2)
    [] n = 3 -> Advance([s EXCEPT !.regV[x] = BitXor(s.regV[x], s.regV[y])], 2)
    [] n = 4 -> Advance(OpADD(s, x, y), 2)
    [] n = 5 -> Advance(OpSUB(s, x, y), 2)
    [] n = 6 -> Advance(OpSHR(s, x), 2)
    [] n = 7 -> Advance(OpSUBN(s, x, y), 2)
    [] n = 14 -> Advance(OpSHL(s, x), 2)
    [] OTHER -> emulator_unknownOpcode(s)

\* the switch on kk of the 0xE000 family
emulator_OpE(s, x, kk) ==
  CASE kk = 158 -> OpSkipIf(s, issetKeymask(s, s.regV[x]))
    [] kk = 161 -> OpSkipIf(s, ~issetKeymask(s, s.regV[x]))
    [] OTHER -> emulator_unknownOpcode(s)

\* the 0xF000 family; pc += 2 follows the inner switch
emulator_OpF(s, x, kk) ==
  LET t == CASE kk = 7 -> [s EXCEPT !.regV[x] = s.delayTimer]
             [] kk = 10 -> OpLDK(s, x)
             [] kk = 21 -> [s EXCEPT !.delayTimer = s.regV[x]]
             [] kk = 24 -> [s EXCEPT !.soundTimer = s.regV[x]]
             [] kk = 30 -> [s EXCEPT !.regI = (s.regI + s.regV[x]) % Word]
             [] kk = 41 -> OpLDF(s, x)
             [] kk = 51 -> OpBCD(s, x)
             [] kk = 85 -> StoreRegs(s, x, 0)
             [] kk = 101 -> LoadRegs(s, x, 0)
             [] OTHER -> emulator_unknownOpcode(s)
  IN IF t.err = "nil" THEN Advance(t, 2) ELSE t

\* emulator.readNextInstruction: the fetch, the decode and the switch
emulator_readNextInstruction(s0, rnd) ==
  LET f == Fetched(s0)
      op == f.op
      s == [s0 EXCEPT !.opcode = op, !.err = "nil"]
      x == (op \div 256) % 16
      y == (op \div 16) % 16
      n == op % 16
      kk == op % 256
      nnn == op % 4096
      hi == op \div 4096
  IN IF ~f.ok THEN [s0 EXCEPT !.err = "OutOfBounds"]
     ELSE CASE hi = 0 -> emulator_Op0(s, kk)
            [] hi = 1 -> OpJP(s, nnn)
            [] hi = 2 -> OpCALL(s, nnn)
            [] hi = 3 -> OpSkipIf(s, s.regV[x] = kk)
            [] hi = 4 -> OpSkipIf(s, s.regV[x] # kk)
            [] hi = 5 -> IF n = 0 THEN OpSkipIf(s, s.regV[x] = s.regV[y])
                         ELSE emulator_unknownOpcode(s)
            [] hi = 6 -> OpLD(s, x, kk)
            [] hi = 7 -> OpADDkk(s, x, kk)
            [] hi = 8 -> emulator_Op8(s, x, y, n)
            [] hi = 9 -> IF n = 0 THEN OpSkipIf(s, s.regV[x] # s.regV[y])
                         ELSE emulator_unknownOpcode(s)
            [] hi = 10 -> Advance([s EXCEPT !.regI = nnn], 2)
            [] hi = 11 -> OpJP(s, (nnn + s.regV[0]) % Word)
            [] hi = 12 -> OpLD(s, x, BitAnd(rnd, kk))
            [] hi = 13 -> emulator_OpDRW(s, x, y, n)
            [] hi = 14 -> emulator_OpE(s, x, kk)
            [] OTHER -> emulator_OpF(s, x, kk)

\* the coupled cycle ends at c, the separated one at t: both stop on an
\* unknown opcode, or both end in the same state
SameStep(c, t) ==
  IF c.err = "exit" \/ t.err = "UnknownOpcode"
    THEN c.err = "exit" /\ t.err = "UnknownOpcode"
    ELSE c = t

\* C26: from equal VM states and for every opcode, the coupled cycle stops
\* on an unknown opcode exactly when the separated one returns an
\* UnknownOpcode error, and otherwise both produce equal successor states.
C26_StepEquivalent ==
  ~Stopped(err)
    => \A rnd \in (IF IsRND THEN 0..255 ELSE {0}) :
         SameStep(emulator_readNextInstruction(VM, rnd), Exec(VM, rnd))

====
